---------------------------- MODULE Spec2Model ----------------------------
(***************************************************************************)
(* A model of tools/send-updates.py: the change classifier diff_infos, the *)
(* significance filter filter_bump_level, and the driver main() with its   *)
(* classification loops and its confirm-then-send loop over one scoped     *)
(* transport session.                                                      *)
(*                                                                         *)
(* Four specifications share the variables:                                *)
(*   SpecDiff      diff_infos applied to every pair of bounded records     *)
(*   SpecBump      filter_bump_level applied to every bounded version pair *)
(*   SpecClassify  main() up to line 406: the argument check and the three *)
(*                 classification loops, on records rich in versions       *)
(*   Spec          the whole of main(): argument check, classification,    *)
(*                 session acquisition, the send loop and its finally      *)
(*                                                                         *)
(* Python values: None is the string "None" for statuses, dates and        *)
(* actions, and the one-element sequence NoneV for versions, so that a     *)
(* version (a sequence of one-character strings) is always comparable to   *)
(* it.  Enum members are the strings of their names.                       *)
(***************************************************************************)
EXTENDS Integers, Sequences, FiniteSets, TLC

VARIABLES
    pc,                \* position of the program (or of the function harness)
    old_info,          \* the old record handed to diff_infos
    new_info,          \* the new record handed to diff_infos
    action,            \* what diff_infos returned
    old_version,       \* filter_bump_level's first argument
    new_version,       \* filter_bump_level's second argument
    bump,              \* what filter_bump_level did: [exc, ret]
    args,              \* the parsed command line flags
    can_be_interactive,\* stdin and stdout are terminals
    old_xeps,          \* keys of old_accepted
    new_xeps,          \* keys of new_accepted
    old_protos,        \* keys of old_proto
    new_protos,        \* keys of new_proto
    todo,              \* identifiers the running for loop has not visited yet
    updates,           \* the queue of (id, action, info)
    smtp,              \* the transport session: [state, acquired, closed, calls]
    idx,               \* number of queue entries the send loop has taken
    mail,              \* "none" or "composed": the mail of entry idx
    answers,           \* the answers choose() returned, one per prompt
    prompted,          \* the queue positions a prompt was shown for
    sent,              \* the queue positions send_message returned for
    exception,         \* the exception that is propagating, or "none"
    exit_code          \* -1 while running, then the process exit code

vars == << pc, old_info, new_info, action, old_version, new_version, bump,
           args, can_be_interactive, old_xeps, new_xeps, old_protos,
           new_protos, todo, updates, smtp, idx, mail, answers, prompted,
           sent, exception, exit_code >>

(***************************************************************************)
(* Bounds.                                                                 *)
(***************************************************************************)
\* longest version string handed to filter_bump_level in SpecBump
MaxLen == 4
\* longest version string carried by a record in SpecDiff
MaxRecLen == 2

None == "None"
NoneV == << "None" >>

\* the characters version strings are made of
Chars == { "0", "1", "." }

RECURSIVE StringsOfLen(_)
StringsOfLen(n) ==
    IF n = 0 THEN { << >> }
    ELSE { Append(s, c) : s \in StringsOfLen(n - 1), c \in Chars }

Strings(n) == UNION { StringsOfLen(k) : k \in 0..n }

(***************************************************************************)
(* xeplib's enumerations.  send-updates.py names PROTO, EXPERIMENTAL,      *)
(* PROPOSED and DEFERRED; the others stand for the remaining accepted      *)
(* statuses.                                                               *)
(***************************************************************************)
Status == { "PROTO", "EXPERIMENTAL", "PROPOSED", "DEFERRED", "ACTIVE", "FINAL" }

Action == { "PROTO", "NEW", "UPDATE", "LAST_CALL", "DEFER", "ACTIVE", "FINAL" }

\* Action.fromstatus: the generic status -> action mapping
fromstatus(status) ==
    CASE status = "EXPERIMENTAL" -> "NEW"
      [] status = "PROPOSED"     -> "LAST_CALL"
      [] status = "DEFERRED"     -> "DEFER"
      [] status = "ACTIVE"       -> "ACTIVE"
      [] status = "FINAL"        -> "FINAL"
      [] OTHER                   -> "KeyError"

(***************************************************************************)
(* Records.  last_revision is a key that may be missing, and so is its     *)
(* version: has_last_revision says whether the key is there, version is    *)
(* NoneV when the revision has no version key.                             *)
(***************************************************************************)
LastRevisions(n) ==
    { [ has_last_revision |-> FALSE, version |-> NoneV ] } \cup
    { [ has_last_revision |-> TRUE, version |-> v ] :
          v \in Strings(n) \cup { NoneV } }

LastCalls == { None, "2024-01-01", "2024-02-01" }

InfoSet(statuses, last_calls, revisions) ==
    { [ status |-> s, last_call |-> d, last_revision |-> r ] :
          s \in statuses, d \in last_calls, r \in revisions }

\* dummy_info: the record of a document that did not exist
dummy_info ==
    [ status |-> None, last_call |-> None,
      last_revision |-> [ has_last_revision |-> FALSE, version |-> NoneV ] ]

\* info.get("last_revision", {}).get("version")
extract_version(info) ==
    IF info.last_revision.has_last_revision
    THEN info.last_revision.version
    ELSE NoneV

(***************************************************************************)
(* diff_infos.  DiffBranch names the return statement that is reached:     *)
(* "1a".."1e" under old.status != new.status, "2" the LAST_CALL return,    *)
(* "3" the UPDATE return and "4" the final return None.  Branch "1e" is    *)
(* the only one that calls Action.fromstatus.                              *)
(***************************************************************************)
\* variants of DiffBranch with one slip each, against which the properties are tested
DiffBranch_NewBeforeProto(old, new) ==
    IF old.status # new.status
    THEN IF old.status = None THEN "1b"
         ELSE IF new.status = "PROTO" THEN "1a"
         ELSE IF old.status = "DEFERRED" /\ new.status = "EXPERIMENTAL" THEN "1c"
         ELSE IF old.status = "PROPOSED" /\ new.status = "EXPERIMENTAL" THEN "1d"
         ELSE "1e"
    ELSE IF old.status = "PROPOSED" /\ old.last_call # new.last_call THEN "2"
    ELSE IF extract_version(old) # extract_version(new) THEN "3"
    ELSE "4"

DiffBranch_NoSpecialCases(old, new) ==
    IF old.status # new.status
    THEN IF new.status = "PROTO" THEN "1a"
         ELSE IF old.status = None THEN "1b"
         ELSE "1e"
    ELSE IF old.status = "PROPOSED" /\ old.last_call # new.last_call THEN "2"
    ELSE IF extract_version(old) # extract_version(new) THEN "3"
    ELSE "4"

DiffBranch_VersionFirst(old, new) ==
    IF old.status # new.status
    THEN IF new.status = "PROTO" THEN "1a"
         ELSE IF old.status = None THEN "1b"
         ELSE IF old.status = "DEFERRED" /\ new.status = "EXPERIMENTAL" THEN "1c"
         ELSE IF old.status = "PROPOSED" /\ new.status = "EXPERIMENTAL" THEN "1d"
         ELSE "1e"
    ELSE IF extract_version(old) # extract_version(new) THEN "3"
    ELSE IF old.status = "PROPOSED" /\ old.last_call # new.last_call THEN "2"
    ELSE "4"

DiffBranch_LastCallAnyStatus(old, new) ==
    IF old.status # new.status
    THEN IF new.status = "PROTO" THEN "1a"
         ELSE IF old.status = None THEN "1b"
         ELSE IF old.status = "DEFERRED" /\ new.status = "EXPERIMENTAL" THEN "1c"
         ELSE IF old.status = "PROPOSED" /\ new.status = "EXPERIMENTAL" THEN "1d"
         ELSE "1e"
    ELSE IF old.last_call # new.last_call THEN "2"
    ELSE IF extract_version(old) # extract_version(new) THEN "3"
    ELSE "4"

DiffBranch(old, new) ==
    IF old.status # new.status
    THEN IF new.status = "PROTO" THEN "1a"
         ELSE IF old.status = None THEN "1b"
         ELSE IF old.status = "DEFERRED" /\ new.status = "EXPERIMENTAL" THEN "1c"
         ELSE IF old.status = "PROPOSED" /\ new.status = "EXPERIMENTAL" THEN "1d"
         ELSE "1e"
    ELSE IF old.status = "PROPOSED" /\ old.last_call # new.last_call THEN "2"
    ELSE IF extract_version(old) # extract_version(new) THEN "3"
    ELSE "4"

diff_infos(old, new) ==
    LET b == DiffBranch(old, new) IN
    CASE b = "1a" -> "PROTO"
      [] b = "1b" -> "NEW"
      [] b = "1c" -> "UPDATE"
      [] b = "1d" -> None
      [] b = "1e" -> fromstatus(new.status)
      [] b = "2"  -> "LAST_CALL"
      [] b = "3"  -> "UPDATE"
      [] OTHER    -> None

(***************************************************************************)
(* decompose_version: s.split(".") padded with "0" to three components.    *)
(***************************************************************************)
RECURSIVE split(_)
split(s) ==
    IF \A i \in 1..Len(s) : s[i] # "."
    THEN << s >>
    ELSE LET i == CHOOSE k \in 1..Len(s) :
                      s[k] = "." /\ \A j \in 1..(k - 1) : s[j] # "."
         IN << SubSeq(s, 1, i - 1) >> \o split(SubSeq(s, i + 1, Len(s)))

decompose_version(s) ==
    LET version_info == split(s) IN
    IF Len(version_info) < 3
    THEN version_info \o [ k \in 1..(3 - Len(version_info)) |-> << "0" >> ]
    ELSE version_info

\* [:2] of a list
FirstTwo(l) == SubSeq(l, 1, IF Len(l) < 2 THEN Len(l) ELSE 2)

(***************************************************************************)
(* filter_bump_level.  The result is [exc, ret]: exc is "none" and ret the *)
(* returned boolean, or exc is the exception raised (None has no split).   *)
(***************************************************************************)
\* a variant of is_editorial that compares the major component only
is_editorial_MajorOnly(old_v, new_v) ==
    IF old_v = NoneV THEN FALSE
    ELSE SubSeq(decompose_version(old_v), 1, 1)
             = SubSeq(decompose_version(new_v), 1, 1)

is_editorial(old_v, new_v) ==
    IF old_v = NoneV THEN FALSE
    ELSE FirstTwo(decompose_version(old_v)) = FirstTwo(decompose_version(new_v))

filter_bump_level(old_v, new_v, inc_editorial, inc_non_editorial) ==
    IF old_v # NoneV /\ new_v = NoneV
    THEN [ exc |-> "AttributeError", ret |-> FALSE ]
    ELSE IF is_editorial(old_v, new_v) /\ ~inc_editorial
         THEN [ exc |-> "none", ret |-> FALSE ]
    ELSE IF ~is_editorial(old_v, new_v) /\ ~inc_non_editorial
         THEN [ exc |-> "none", ret |-> FALSE ]
    ELSE [ exc |-> "none", ret |-> TRUE ]


(***************************************************************************)
(* The parts of the state a specification does not use keep these values.  *)
(***************************************************************************)
NoInfo == [ status |-> "unset", last_call |-> None,
            last_revision |-> [ has_last_revision |-> FALSE, version |-> NoneV ] ]

NoBump == [ exc |-> "uncalled", ret |-> FALSE ]

NoSmtp == [ state |-> "unbound", acquired |-> 0, closed |-> 0,
            attempts |-> << >>, late |-> FALSE ]

\* argparse's defaults (lines 285-320)
DefaultArgs ==
    [ ask_confirmation |-> TRUE, include_protoxep |-> TRUE, dry_run |-> FALSE,
      include_editorial |-> TRUE, include_non_editorial |-> TRUE ]

driverVars == << args, can_be_interactive, old_xeps, new_xeps, old_protos,
                 new_protos, todo, updates, smtp, idx, mail, answers,
                 prompted, sent, exception, exit_code >>

(***************************************************************************)
(* SpecDiff: diff_infos on every pair of bounded records.  The old record  *)
(* may be the dummy (status None); a new record always has a status.       *)
(***************************************************************************)
DiffOldInfos == InfoSet(Status \cup { None }, LastCalls, LastRevisions(MaxRecLen))

DiffNewInfos == InfoSet(Status, LastCalls, LastRevisions(MaxRecLen))

InitDiff ==
    /\ pc = "call"
    /\ old_info \in DiffOldInfos
    /\ new_info \in DiffNewInfos
    /\ action = "unset"
    /\ old_version = NoneV /\ new_version = NoneV /\ bump = NoBump
    /\ args = DefaultArgs /\ can_be_interactive = TRUE
    /\ old_xeps = {} /\ new_xeps = {} /\ old_protos = {} /\ new_protos = {}
    /\ todo = {} /\ updates = << >> /\ smtp = NoSmtp /\ idx = 0
    /\ mail = "none" /\ answers = << >> /\ prompted = << >> /\ sent = << >>
    /\ exception = "none" /\ exit_code = -1

CallDiffInfos ==
    /\ pc = "call"
    /\ action' = diff_infos(old_info, new_info)
    /\ pc' = "returned"
    /\ UNCHANGED << old_info, new_info, old_version, new_version, bump >>
    /\ UNCHANGED driverVars

NextDiff == CallDiffInfos

SpecDiff == InitDiff /\ [][NextDiff]_vars

(***************************************************************************)
(* SpecBump: filter_bump_level on every pair of bounded versions (None     *)
(* included on both sides) under each combination of the two flags.        *)
(***************************************************************************)
BumpVersions == Strings(MaxLen) \cup { NoneV }

InitBump ==
    /\ pc = "call"
    /\ old_version \in BumpVersions
    /\ new_version \in BumpVersions
    /\ \E e \in BOOLEAN, n \in BOOLEAN :
           args = [ DefaultArgs EXCEPT !.include_editorial = e,
                                       !.include_non_editorial = n ]
    /\ old_info = NoInfo /\ new_info = NoInfo /\ action = "unset"
    /\ bump = NoBump /\ can_be_interactive = TRUE
    /\ old_xeps = {} /\ new_xeps = {} /\ old_protos = {} /\ new_protos = {}
    /\ todo = {} /\ updates = << >> /\ smtp = NoSmtp /\ idx = 0
    /\ mail = "none" /\ answers = << >> /\ prompted = << >> /\ sent = << >>
    /\ exception = "none" /\ exit_code = -1

CallFilterBumpLevel ==
    /\ pc = "call"
    /\ bump' = filter_bump_level(old_version, new_version,
                                 args.include_editorial,
                                 args.include_non_editorial)
    /\ pc' = "returned"
    /\ UNCHANGED << old_info, new_info, action, old_version, new_version >>
    /\ UNCHANGED driverVars

NextBump == CallFilterBumpLevel

SpecBump == InitBump /\ [][NextBump]_vars


(***************************************************************************)
(* main().  The two snapshots are read from files; the model keeps the key *)
(* sets of the four mappings and draws the content of a record when the    *)
(* loop that reads it visits its identifier (main reads every record       *)
(* once).  A Python for loop over a set visits its members in an order the *)
(* language does not fix: todo holds the members still to visit.           *)
(***************************************************************************)
XepIds == { "0001", "0002" }

ProtoNames == { "proto-a" }

\* the flags main() is started with: -y, --no-proto, -n, --no-editorial,
\* --no-non-editorial, each given or not
ArgSet ==
    [ ask_confirmation : BOOLEAN, include_protoxep : BOOLEAN, dry_run : BOOLEAN,
      include_editorial : BOOLEAN, include_non_editorial : BOOLEAN ]

\* lines 346-352: a dry run asks nothing; asking needs a terminal
CheckArgs ==
    /\ pc = "args"
    /\ LET a == IF args.dry_run
                THEN [ args EXCEPT !.ask_confirmation = FALSE ]
                ELSE args
       IN /\ args' = a
          /\ IF a.ask_confirmation /\ ~can_be_interactive
             THEN /\ pc' = "exited" /\ exit_code' = 2
                  /\ todo' = todo
             ELSE /\ pc' = "common" /\ exit_code' = exit_code
                  /\ todo' = old_xeps \cap new_xeps
    /\ UNCHANGED << old_info, new_info, action, old_version, new_version, bump,
                    can_be_interactive, old_xeps, new_xeps, old_protos,
                    new_protos, updates, smtp, idx, mail, answers, prompted,
                    sent, exception >>

\* lines 380-389: classify a pair of a common identifier, drop an UPDATE
\* the significance filter rejects, queue any other action
common_outcome(old, new, a) ==
    LET act == diff_infos(old, new)
        b == IF act = "UPDATE"
             THEN filter_bump_level(extract_version(old), extract_version(new),
                                    a.include_editorial, a.include_non_editorial)
             ELSE NoBump
    IN [ action |-> act,
         bump |-> b,
         exc |-> IF act = "UPDATE" THEN b.exc ELSE "none",
         queue |-> IF act = "UPDATE" THEN (b.exc = "none" /\ b.ret)
                   ELSE act # None ]

\* a variant of added_outcome that runs the significance filter as well
added_outcome_Filtered(old, new, a) ==
    LET act == diff_infos(old, new)
        b == filter_bump_level(extract_version(old), extract_version(new),
                               a.include_editorial, a.include_non_editorial)
    IN [ action |-> act, bump |-> b, exc |-> "none",
         queue |-> (act # None /\ b.ret) ]

\* lines 395-397 and 404-406: classify against the dummy, queue any action
added_outcome(old, new, a) ==
    LET act == diff_infos(old, new)
    IN [ action |-> act, bump |-> NoBump, exc |-> "none", queue |-> act # None ]

\* the effect of one loop iteration on identifier id with outcome o
Iterate(id, old, new, o) ==
    /\ old_info' = old /\ new_info' = new
    /\ action' = o.action /\ bump' = o.bump
    /\ todo' = todo \ { id }
    /\ IF o.exc # "none"
       THEN /\ exception' = o.exc /\ pc' = "exited" /\ exit_code' = 1
            /\ updates' = updates
       ELSE /\ exception' = exception /\ pc' = pc /\ exit_code' = exit_code
            /\ updates' = IF o.queue
                          THEN Append(updates, [ id |-> id, action |-> o.action,
                                                 info |-> new ])
                          ELSE updates
    /\ UNCHANGED << old_version, new_version, args, can_be_interactive,
                    old_xeps, new_xeps, old_protos, new_protos, smtp, idx,
                    mail, answers, prompted, sent >>

\* moving from one loop to the next
EnterLoop(next_pc, members) ==
    /\ pc' = next_pc /\ todo' = members
    /\ UNCHANGED << old_info, new_info, action, old_version, new_version, bump,
                    args, can_be_interactive, old_xeps, new_xeps, old_protos,
                    new_protos, updates, smtp, idx, mail, answers, prompted,
                    sent, exception, exit_code >>

\* lines 376-389, one iteration
ClassifyCommon(Infos) ==
    /\ pc = "common"
    /\ \E common_xep \in todo, old \in Infos, new \in Infos :
           Iterate(common_xep, old, new, common_outcome(old, new, args))

\* line 391: the common loop is over, added_xeps is next
CommonDone ==
    /\ pc = "common" /\ todo = {}
    /\ EnterLoop("added", new_xeps \ old_xeps)

\* lines 391-397, one iteration
ClassifyAdded(Infos) ==
    /\ pc = "added"
    /\ \E added_xep \in todo, new \in Infos :
           Iterate(added_xep, dummy_info, new,
                   added_outcome(dummy_info, new, args))

\* line 399: the added loop is over; the protos follow unless --no-proto
AddedDone ==
    /\ pc = "added" /\ todo = {}
    /\ IF args.include_protoxep
       THEN EnterLoop("protos", new_protos \ old_protos)
       ELSE EnterLoop("connect", {})

\* lines 400-406, one iteration
ClassifyProto(Infos) ==
    /\ pc = "protos"
    /\ \E added_proto \in todo, new \in Infos :
           Iterate(added_proto, dummy_info, new,
                   added_outcome(dummy_info, new, args))

\* line 408: the proto loop is over
ProtosDone ==
    /\ pc = "protos" /\ todo = {}
    /\ EnterLoop("connect", {})

(***************************************************************************)
(* SpecClassify: the classification loops on records with and without a    *)
(* last revision, whose versions differ editorially and non-editorially.  *)
(***************************************************************************)
ClsRevisions ==
    { [ has_last_revision |-> FALSE, version |-> NoneV ] } \cup
    { [ has_last_revision |-> TRUE, version |-> v ] :
          v \in { << "1" >>, << "1", ".", "0" >>, << "1", ".", "1" >> } }

ClsInfos == InfoSet({ "EXPERIMENTAL", "DEFERRED" }, { None }, ClsRevisions)

ClsProtoInfos == InfoSet({ "PROTO" }, { None }, ClsRevisions)

InitClassify ==
    /\ pc = "args"
    /\ args \in { a \in ArgSet : a.dry_run /\ a.ask_confirmation }
    /\ can_be_interactive = FALSE
    /\ old_xeps \in SUBSET XepIds /\ new_xeps \in SUBSET XepIds
    /\ old_protos \in SUBSET ProtoNames /\ new_protos \in SUBSET ProtoNames
    /\ old_info = NoInfo /\ new_info = NoInfo /\ action = "unset"
    /\ old_version = NoneV /\ new_version = NoneV /\ bump = NoBump
    /\ todo = {} /\ updates = << >> /\ smtp = NoSmtp /\ idx = 0
    /\ mail = "none" /\ answers = << >> /\ prompted = << >> /\ sent = << >>
    /\ exception = "none" /\ exit_code = -1

NextClassify ==
    \/ CheckArgs
    \/ ClassifyCommon(ClsInfos)
    \/ CommonDone
    \/ ClassifyAdded(ClsInfos)
    \/ AddedDone
    \/ ClassifyProto(ClsProtoInfos)
    \/ ProtosDone

SpecClassify == InitClassify /\ [][NextClassify]_vars

(***************************************************************************)
(* The transport session and the send loop, lines 408-454.  smtp.attempts  *)
(* lists the queue positions send_message was called for, sent those it    *)
(* returned for; smtp.late records a call on a session that is not open.   *)
(* Composing a mail reads fields of the record and the configuration that  *)
(* the model does not hold, and sending depends on the network: whether    *)
(* either raises is an input.                                              *)
(***************************************************************************)
\* what acquiring the session can come to: a connection, a configuration
\* error (NoSectionError, NoOptionError) or any other exception
ConnectOutcomes == { "connected", "missing_config", "error" }

\* lines 408-422
Connect ==
    /\ pc = "connect"
    /\ \E outcome \in ConnectOutcomes :
          /\ args.dry_run => outcome = "connected"
          /\ can_be_interactive => outcome # "missing_config"
          /\ CASE outcome = "connected" ->
                    /\ smtp' = [ smtp EXCEPT !.state = "open",
                                             !.acquired = @ + 1 ]
                    /\ pc' = "loop"
                    /\ UNCHANGED << exception, exit_code >>
               [] outcome = "missing_config" ->
                    /\ pc' = "exited" /\ exit_code' = 3
                    /\ UNCHANGED << smtp, exception >>
               [] OTHER ->
                    /\ pc' = "exited" /\ exit_code' = 1
                    /\ exception' = "OSError"
                    /\ UNCHANGED smtp
    /\ UNCHANGED << old_info, new_info, action, old_version, new_version, bump,
                    args, can_be_interactive, old_xeps, new_xeps, old_protos,
                    new_protos, todo, updates, idx, mail, answers, prompted,
                    sent >>

\* lines 425-434: take the next queue entry and compose its mail; then the
\* prompt, or the send at once when nothing is asked
ComposeMail ==
    /\ pc = "loop" /\ idx < Len(updates)
    /\ idx' = idx + 1
    /\ \E raises \in BOOLEAN :
          IF raises
          THEN /\ exception' = "KeyError" /\ pc' = "finally"
               /\ mail' = mail
          ELSE /\ exception' = exception
               /\ mail' = "composed"
               /\ pc' = IF args.ask_confirmation THEN "confirm" ELSE "send"
    /\ UNCHANGED << old_info, new_info, action, old_version, new_version, bump,
                    args, can_be_interactive, old_xeps, new_xeps, old_protos,
                    new_protos, todo, updates, smtp, answers, prompted, sent,
                    exit_code >>

\* line 425: the queue is exhausted
LoopDone ==
    /\ pc = "loop" /\ idx = Len(updates)
    /\ pc' = "finally"
    /\ UNCHANGED << old_info, new_info, action, old_version, new_version, bump,
                    args, can_be_interactive, old_xeps, new_xeps, old_protos,
                    new_protos, todo, updates, smtp, idx, mail, answers,
                    prompted, sent, exception, exit_code >>

\* what the terminal gives the prompt
Keys == { "y", "n", "a", "EOF" }

\* choose(prompt, "yna", eof="a")
choose(key) == IF key = "EOF" THEN "a" ELSE key

\* variants of after_choice: abort that only skips, skip that sends
after_choice_AbortSkips(choice) ==
    CASE choice = "n" -> [ pc |-> "loop", exception |-> "none" ]
      [] choice = "a" -> [ pc |-> "loop", exception |-> "none" ]
      [] OTHER        -> [ pc |-> "send", exception |-> "none" ]

after_choice_SkipSends(choice) ==
    CASE choice = "n" -> [ pc |-> "send", exception |-> "none" ]
      [] choice = "a" -> [ pc |-> "finally", exception |-> "SystemExit" ]
      [] OTHER        -> [ pc |-> "send", exception |-> "none" ]

\* lines 446-452: "n" continues, "a" raises SystemExit(4), "y" falls
\* through to the send
after_choice(choice) ==
    CASE choice = "n" -> [ pc |-> "loop", exception |-> "none" ]
      [] choice = "a" -> [ pc |-> "finally", exception |-> "SystemExit" ]
      [] OTHER        -> [ pc |-> "send", exception |-> "none" ]

\* lines 434-450
Confirm ==
    /\ pc = "confirm"
    /\ \E key \in Keys :
          LET choice == choose(key) IN
          /\ answers' = Append(answers, choice)
          /\ prompted' = Append(prompted, idx)
          /\ pc' = after_choice(choice).pc
          /\ exception' = after_choice(choice).exception
    /\ UNCHANGED << old_info, new_info, action, old_version, new_version, bump,
                    args, can_be_interactive, old_xeps, new_xeps, old_protos,
                    new_protos, todo, updates, smtp, idx, mail, sent,
                    exit_code >>

\* line 452
SendMessage ==
    /\ pc = "send"
    /\ \E raises \in BOOLEAN :
          /\ smtp' = [ smtp EXCEPT !.attempts = Append(@, idx),
                                   !.late = @ \/ smtp.state # "open" ]
          /\ IF raises
             THEN /\ exception' = "SMTPException" /\ pc' = "finally"
                  /\ sent' = sent
             ELSE /\ exception' = exception /\ pc' = "loop"
                  /\ sent' = Append(sent, idx)
    /\ UNCHANGED << old_info, new_info, action, old_version, new_version, bump,
                    args, can_be_interactive, old_xeps, new_xeps, old_protos,
                    new_protos, todo, updates, idx, mail, answers, prompted,
                    exit_code >>

\* a variant of closes_session: a close after the loop instead of a finally
closes_session_AfterLoopOnly(exc) == exc = "none"

\* lines 453-454: the finally clause runs however the try block was left
closes_session(exc) == TRUE

\* the exit code of a process that ends with exception exc propagating
exit_status(exc) ==
    CASE exc = "none"       -> 0
      [] exc = "SystemExit" -> 4
      [] OTHER              -> 1

\* lines 453-454, and the end of main()
Finally ==
    /\ pc = "finally"
    /\ smtp' = IF closes_session(exception)
               THEN [ smtp EXCEPT !.state = "closed", !.closed = @ + 1 ]
               ELSE smtp
    /\ pc' = "exited"
    /\ exit_code' = exit_status(exception)
    /\ UNCHANGED << old_info, new_info, action, old_version, new_version, bump,
                    args, can_be_interactive, old_xeps, new_xeps, old_protos,
                    new_protos, todo, updates, idx, mail, answers, prompted,
                    sent, exception >>

(***************************************************************************)
(* Spec: the whole of main(), on snapshots of up to two documents and one  *)
(* proto document.                                                         *)
(***************************************************************************)
RunRevisions ==
    { [ has_last_revision |-> FALSE, version |-> NoneV ],
      [ has_last_revision |-> TRUE, version |-> << "1", ".", "0" >> ] }

RunInfos == InfoSet({ "EXPERIMENTAL", "DEFERRED" }, { None }, RunRevisions)

RunProtoInfos ==
    InfoSet({ "PROTO" }, { None },
            { [ has_last_revision |-> FALSE, version |-> NoneV ] })

Init ==
    /\ pc = "args"
    /\ args \in ArgSet
    /\ can_be_interactive \in BOOLEAN
    /\ old_xeps \in SUBSET XepIds /\ new_xeps \in SUBSET XepIds
    /\ old_protos \in SUBSET ProtoNames /\ new_protos \in SUBSET ProtoNames
    /\ old_info = NoInfo /\ new_info = NoInfo /\ action = "unset"
    /\ old_version = NoneV /\ new_version = NoneV /\ bump = NoBump
    /\ todo = {} /\ updates = << >> /\ smtp = NoSmtp /\ idx = 0
    /\ mail = "none" /\ answers = << >> /\ prompted = << >> /\ sent = << >>
    /\ exception = "none" /\ exit_code = -1

Next ==
    \/ CheckArgs
    \/ ClassifyCommon(RunInfos)
    \/ CommonDone
    \/ ClassifyAdded(RunInfos)
    \/ AddedDone
    \/ ClassifyProto(RunProtoInfos)
    \/ ProtosDone
    \/ Connect
    \/ ComposeMail
    \/ LoopDone
    \/ Confirm
    \/ SendMessage
    \/ Finally

Spec == Init /\ [][Next]_vars

(***************************************************************************)
(* Properties of diff_infos, checked under SpecDiff.                       *)
(***************************************************************************)
Returned == pc = "returned"

\* the version a record counts as having: None when the last revision or
\* its version is missing
VersionOf(info) ==
    IF info.last_revision.has_last_revision /\ info.last_revision.version # NoneV
    THEN info.last_revision.version
    ELSE NoneV

\* C1: whenever new.status is PROTO and old.status differs from it (None or
\* any other status), diff_infos returns Action.PROTO, whatever the last-call
\* dates and versions of the two records are.
C1_ProtoWins ==
    (Returned /\ new_info.status = "PROTO" /\ old_info.status # new_info.status)
        => action = "PROTO"

\* an experimental document turned PROTO, with last call and version changed
C1_Witness ==
    /\ Returned
    /\ old_info.status = "EXPERIMENTAL" /\ new_info.status = "PROTO"
    /\ old_info.last_call # new_info.last_call
    /\ VersionOf(old_info) # VersionOf(new_info)
    /\ action = "PROTO"

\* C2: DEFERRED -> EXPERIMENTAL yields UPDATE and PROPOSED -> EXPERIMENTAL
\* yields None, whatever the versions and last-call dates are, and neither
\* pair reaches the return that calls Action.fromstatus.
C2_SpecialTransitions ==
    /\ (Returned /\ old_info.status = "DEFERRED"
                 /\ new_info.status = "EXPERIMENTAL")
           => (action = "UPDATE" /\ DiffBranch(old_info, new_info) # "1e")
    /\ (Returned /\ old_info.status = "PROPOSED"
                 /\ new_info.status = "EXPERIMENTAL")
           => (action = None /\ DiffBranch(old_info, new_info) # "1e")

\* a proposal fallen back to experimental with a new version: no action
C2_Witness ==
    /\ Returned
    /\ old_info.status = "PROPOSED" /\ new_info.status = "EXPERIMENTAL"
    /\ VersionOf(old_info) # VersionOf(new_info)
    /\ old_info.last_call # new_info.last_call
    /\ action = None

\* C3: two PROPOSED records whose last-call dates differ yield LAST_CALL,
\* also when their versions differ; two records of one and the same status
\* other than PROPOSED never yield LAST_CALL, whatever their last-call dates.
C3_LastCall ==
    /\ (Returned /\ old_info.status = "PROPOSED" /\ new_info.status = "PROPOSED"
                 /\ old_info.last_call # new_info.last_call)
           => action = "LAST_CALL"
    /\ (Returned /\ old_info.status = new_info.status
                 /\ old_info.status # "PROPOSED")
           => action # "LAST_CALL"

\* a proposed document with a new last call and a new version
C3_Witness ==
    /\ Returned
    /\ old_info.status = "PROPOSED" /\ new_info.status = "PROPOSED"
    /\ old_info.last_call # new_info.last_call
    /\ VersionOf(old_info) # VersionOf(new_info)
    /\ action = "LAST_CALL"

\* C4: for records of equal status that do not trigger LAST_CALL (status not
\* PROPOSED, or equal last-call dates) diff_infos returns UPDATE exactly when
\* the versions differ (a missing last revision counting as None) and None
\* otherwise.
C4_UpdateIffVersionDiffers ==
    (Returned /\ old_info.status = new_info.status
              /\ (old_info.status # "PROPOSED"
                    \/ old_info.last_call = new_info.last_call))
        => /\ (VersionOf(old_info) # VersionOf(new_info)) => action = "UPDATE"
           /\ (VersionOf(old_info) = VersionOf(new_info)) => action = None

\* a deferred document whose last revision appeared and whose last-call date
\* changed: UPDATE, by the version alone
C4_Witness ==
    /\ Returned
    /\ old_info.status = "DEFERRED" /\ new_info.status = "DEFERRED"
    /\ old_info.last_call # new_info.last_call
    /\ ~old_info.last_revision.has_last_revision
    /\ VersionOf(new_info) # NoneV
    /\ action = "UPDATE"

(***************************************************************************)
(* Properties of filter_bump_level, checked under SpecBump.                *)
(***************************************************************************)
\* the first two of the components of a version split on "." and padded
\* with "0" to three
MajorMinor(v) == SubSeq(decompose_version(v), 1, 2)

Editorial == old_version # NoneV /\ MajorMinor(old_version) = MajorMinor(new_version)

\* C5: on a new version that is a string (or with no old version at all)
\* filter_bump_level returns True iff the bump is editorial and editorial
\* bumps are included, or it is not editorial and non-editorial bumps are
\* included; so True under both flags, False under neither, and
\* include_non_editorial alone decides when old_version is None.
C5_FilterBumpLevel ==
    (Returned /\ (old_version = NoneV \/ new_version # NoneV))
        => /\ bump.exc = "none"
           /\ bump.ret = ( (Editorial /\ args.include_editorial)
                             \/ (~Editorial /\ args.include_non_editorial) )
           /\ (args.include_editorial /\ args.include_non_editorial) => bump.ret
           /\ (~args.include_editorial /\ ~args.include_non_editorial) => ~bump.ret
           /\ (old_version = NoneV) => (bump.ret = args.include_non_editorial)

\* "1.0" -> "1" is editorial by padding alone and is suppressed
C5_Witness ==
    /\ Returned
    /\ old_version = << "1", ".", "0" >> /\ new_version = << "1" >>
    /\ ~args.include_editorial /\ args.include_non_editorial
    /\ bump = [ exc |-> "none", ret |-> FALSE ]

(***************************************************************************)
(* Properties of the classification loops, checked under SpecClassify.     *)
(***************************************************************************)
\* the queue positions that hold identifier id
EntriesOf(id) == { k \in DOMAIN updates : updates[k].id = id }

Classified == pc = "connect"

\* C6: once the loops are over, every identifier that only the new accepted
\* snapshot holds (its status neither None nor PROTO) is queued exactly once,
\* with NEW, and, unless --no-proto, every proto name that only the new
\* snapshot holds (its status PROTO) is queued exactly once, with PROTO;
\* under every combination of include_editorial and include_non_editorial
\* and whatever the version of the record is.
C6_AddedNeverFiltered ==
    Classified =>
        /\ \A x \in new_xeps \ old_xeps :
              /\ Cardinality(EntriesOf(x)) = 1
              /\ \A k \in EntriesOf(x) :
                    updates[k].info.status \notin { None, "PROTO" }
                        => updates[k].action = "NEW"
        /\ args.include_protoxep =>
              \A p \in new_protos \ old_protos :
                 /\ Cardinality(EntriesOf(p)) = 1
                 /\ \A k \in EntriesOf(p) :
                       updates[k].info.status = "PROTO"
                           => updates[k].action = "PROTO"

\* both kinds of bump excluded, and still a new document with a version and
\* a new proto document are queued
C6_Witness ==
    /\ Classified
    /\ ~args.include_editorial /\ ~args.include_non_editorial
    /\ args.include_protoxep
    /\ \E x \in new_xeps \ old_xeps : \E k \in EntriesOf(x) :
          /\ updates[k].action = "NEW"
          /\ updates[k].info.last_revision.has_last_revision
    /\ \E p \in new_protos \ old_protos : \E k \in EntriesOf(p) :
          updates[k].action = "PROTO"

\* C10: the loop over the common identifiers never raises: whenever
\* diff_infos returns UPDATE, filter_bump_level returns a boolean, also for
\* records without a last-revision version.
C10_CommonLoopNeverRaises ==
    /\ exception = "none"
    /\ action = "UPDATE" => bump.exc = "none"

(***************************************************************************)
(* Properties of the send loop, checked under Spec.                        *)
(***************************************************************************)
Range(q) == { q[k] : k \in DOMAIN q }

\* not -y and not --dry-run
ConfirmationEnabled == args.ask_confirmation /\ ~args.dry_run

\* the queue positions answered with c
Answered(c) == { prompted[k] : k \in { j \in DOMAIN answers : answers[j] = c } }

\* the process ended after it had acquired a session
EndedWithSession == pc = "exited" /\ smtp.acquired = 1

\* C7: once a prompt is answered abort (end of input counts as abort), the
\* notification asked about and every later one are never handed to the
\* session, no further prompt is shown, what was sent stays sent, and the
\* process ends with exit code 4.
C7_AbortStopsSending ==
    /\ [](\A k \in DOMAIN answers :
             answers[k] = "a" =>
                /\ k = Len(answers)
                /\ \A p \in Range(smtp.attempts) : p < prompted[k]
                /\ \A p \in Range(sent) : p < prompted[k]
                /\ pc \in { "finally", "exited" }
                /\ pc = "exited" => exit_code = 4)
    /\ [][ "a" \in Range(answers) =>
               (sent' = sent /\ smtp'.attempts = smtp.attempts) ]_vars

\* first notification sent, abort at the second, the third never sent
C7_Witness ==
    /\ pc = "exited" /\ exit_code = 4
    /\ Len(updates) = 3
    /\ answers = << "y", "a" >>
    /\ sent = << 1 >>
    /\ smtp.attempts = << 1 >>

\* C8: the session is acquired at most once; a process that acquired it ends
\* with it closed exactly once, whether the loop completed, the user aborted
\* or an error was raised while composing or sending; the close is the last
\* thing done, no send is made on a session that is not open, and no queue
\* position is sent twice (a failed send is not retried).
C8_SessionScoped ==
    /\ smtp.acquired <= 1
    /\ smtp.closed <= smtp.acquired
    /\ EndedWithSession => (smtp.closed = 1 /\ smtp.state = "closed")
    /\ smtp.closed = 1 => pc = "exited"
    /\ ~smtp.late
    /\ \A i, j \in DOMAIN smtp.attempts :
          i < j => smtp.attempts[i] < smtp.attempts[j]
    /\ exception # "none" => pc \in { "finally", "exited" }

\* a send that raised after an earlier one went through: closed, not retried
C8_Witness ==
    /\ pc = "exited" /\ exception = "SMTPException" /\ exit_code = 1
    /\ smtp.acquired = 1 /\ smtp.closed = 1
    /\ sent = << 1 >> /\ smtp.attempts = << 1, 2 >>

\* C9 as stated: under confirmation a notification is transmitted only if
\* answered send, a skipped one is not, and at the end the transmitted ones
\* are exactly those answered send; without confirmation nothing is asked
\* and every queued notification is transmitted, in queue order.
C9_AsStated ==
    /\ ConfirmationEnabled =>
          /\ Range(sent) \subseteq Answered("y")
          /\ Answered("n") \cap Range(smtp.attempts) = {}
          /\ EndedWithSession => Range(sent) = Answered("y")
    /\ ~ConfirmationEnabled =>
          /\ answers = << >>
          /\ EndedWithSession => sent = [ k \in 1..Len(updates) |-> k ]

\* C9 amended: the same, unless an error raised while composing or sending
\* ends the run: then the transmitted notifications are those answered send
\* before it, without the one whose send raised, and without confirmation
\* the queue's prefix before it.
C9_SendOnlyOnYes ==
    /\ ConfirmationEnabled =>
          /\ Range(sent) \subseteq Answered("y")
          /\ Answered("n") \cap Range(smtp.attempts) = {}
          /\ (Len(answers) > 0 /\ answers[Len(answers)] = "n"
                /\ idx = prompted[Len(prompted)])
                => (pc = "loop" \/ (idx = Len(updates) /\ exception = "none"))
          /\ EndedWithSession =>
                Range(sent) = Answered("y") \
                    (IF exception = "SMTPException" THEN { idx } ELSE {})
    /\ ~ConfirmationEnabled =>
          /\ answers = << >>
          /\ sent = [ k \in 1..Len(sent) |-> k ]
          /\ (EndedWithSession /\ exception = "none")
                => sent = [ k \in 1..Len(updates) |-> k ]
          /\ (EndedWithSession /\ exception # "none")
                => sent = [ k \in 1..(idx - 1) |-> k ]

\* send, skip, send: the first and the third notification are transmitted
C9_Witness ==
    /\ pc = "exited" /\ exit_code = 0
    /\ ConfirmationEnabled
    /\ answers = << "y", "n", "y" >>
    /\ sent = << 1, 3 >>

=============================================================================
